---- MODULE Spec2Model ----
(***************************************************************************)
(* Model of rusty/src/lib.rs: the DynamicEnvVar descriptor (a fresh        *)
(* environment lookup with default substitution on every read) and the     *)
(* Config singleton kept in the OnceLock CONFIG_INSTANCE, together with    *)
(* the module initialiser rusty() that registers the descriptors and       *)
(* binds CONFIG.                                                           *)
(***************************************************************************)
EXTENDS Integers, Sequences, FiniteSets, TLC

\* ------------------------------------------------------------------ bounds
\* Host threads that call into the extension (the loader is thread 0).
NThreads == 2
\* Config objects the host heap can hold; Py::new fails beyond it.
MaxObjs == 2

\* ------------------------------------------------------------- environment
\* A value of the process environment is an OsString: a sequence of bytes.
\* "" | "a" followed by e-acute (0xC3 0xA9: valid UTF-8) | "a" followed by
\* a lone lead byte 0xC3 (not valid UTF-8: env::var answers Err(NotUnicode)).
EnvValues == { <<>>, <<97, 195, 169>>, <<97, 195>> }

\* The variables the module registers (lines 90-95).
VarNames == { "BUILDER_TOKEN", "CODEGEN_AGENT", "SNAPSHOT_BUCKET" }

\* Names beside them that an environment can hold: one that differs from
\* BUILDER_TOKEN by case only, one that has it as a suffix. Names are matched
\* byte for byte (the Unix environment).
OtherNames == { "builder_token", "MY_BUILDER_TOKEN" }
EnvNames == VarNames \cup OtherNames

\* Option<T>
None == [tag |-> "None"]
Some(s) == [tag |-> "Some", val |-> s]

\* Result<T, E>; the error's payload is not modelled.
Ok(v) == [tag |-> "Ok", val |-> v]
Err == [tag |-> "Err"]

\* Host-runtime values: a str, or None (py.None()).
PyNone == [tag |-> "PyNone"]
PyStr(s) == [tag |-> "PyStr", val |-> s]

\* String::from_utf8 on the bytes of an OsString, for sequences of one- and
\* two-byte code points: a byte below 0x80 stands alone, a lead byte
\* 0xC2..0xDF takes one continuation byte 0x80..0xBF, anything else is
\* rejected.
RECURSIVE IsUtf8(_)
IsUtf8(b) ==
    IF b = <<>> THEN TRUE
    ELSE IF Head(b) < 128 THEN IsUtf8(Tail(b))
    ELSE IF Head(b) >= 194 /\ Head(b) <= 223
         THEN /\ Len(b) >= 2
              /\ b[2] >= 128 /\ b[2] <= 191
              /\ IsUtf8(Tail(Tail(b)))
    ELSE FALSE

\* A lookup that, for a name the environment does not hold, takes the value
\* of the name's lower-case spelling (a case-insensitive match).
env_var_any_case(e, name) ==
    LET lower == IF name = "BUILDER_TOKEN" THEN "builder_token" ELSE name
        n == IF name \in DOMAIN e /\ e[name] = None /\ lower \in DOMAIN e
             THEN lower ELSE name
    IN  IF n \notin DOMAIN e THEN Err
        ELSE IF e[n] = None THEN Err
        ELSE IF IsUtf8(e[n].val) THEN Ok(e[n].val)
        ELSE Err

\* std::env::var(name): Ok(String) when the variable is present and its
\* bytes are valid Unicode, Err otherwise (NotPresent or NotUnicode).
\* `e` maps every name to None (unset) or Some(bytes).
env_var(e, name) ==
    IF name \notin DOMAIN e THEN Err
    ELSE IF e[name] = None THEN Err
    ELSE IF IsUtf8(e[name].val) THEN Ok(e[name].val)
    ELSE Err

\* ------------------------------------------------------------ DynamicEnvVar
\* DynamicEnvVar::new: the two fields, stored as given.
DynamicEnvVar_new(env_name, default_value) ==
    [env_name |-> env_name, default_value |-> default_value]

\* val.into_py(py): a Rust String becomes a host str with the same content.
into_py(s) == PyStr(s)

\* A lookup that drops the default: absence whenever env::var fails.
get_env_value_no_default(self, e) ==
    LET r == env_var(e, self.env_name) IN
    IF r.tag = "Ok" THEN Ok(into_py(r.val)) ELSE Ok(PyNone)

\* A lookup that propagates env::var's error instead of matching on it.
get_env_value_strict(self, e) ==
    LET r == env_var(e, self.env_name) IN
    IF r.tag = "Ok" THEN Ok(into_py(r.val)) ELSE Err

\* A lookup that answers from the environment as it was when the descriptor
\* was built (every registered variable unset) instead of the current one.
get_env_value_cached(self, e) ==
    IF self.default_value.tag = "Some"
    THEN Ok(into_py(self.default_value.val))
    ELSE Ok(PyNone)

\* DynamicEnvVar::get_env_value
get_env_value(self, e) ==
    LET r == env_var(e, self.env_name) IN
    IF r.tag = "Ok" THEN Ok(into_py(r.val))
    ELSE IF self.default_value.tag = "Some"
         THEN Ok(into_py(self.default_value.val))
         ELSE Ok(PyNone)

\* A __get__ that answers the descriptor itself when read on the class (the
\* host's usual descriptor convention) or with no arguments.
descriptor_get_class_self(self, obj, typ, e) ==
    IF obj.tag = "Some" THEN get_env_value(self, e)
    ELSE Ok([tag |-> "PyDescriptor", val |-> self])

\* DynamicEnvVar::__get__: the three arms of the match on (_obj, _type).
descriptor_get(self, obj, typ, e) ==
    IF obj.tag = "Some" THEN get_env_value(self, e)
    ELSE IF typ.tag = "Some" THEN get_env_value(self, e)
    ELSE get_env_value(self, e)

\* "trpc_agent" as bytes.
TrpcAgent == <<116, 114, 112, 99, 95, 97, 103, 101, 110, 116>>

\* The descriptors rusty() creates (lines 90-95), by attribute name.
builder_token == DynamicEnvVar_new("BUILDER_TOKEN", None)
agent_type == DynamicEnvVar_new("CODEGEN_AGENT", Some(TrpcAgent))
snapshot_bucket == DynamicEnvVar_new("SNAPSHOT_BUCKET", None)

\* The attribute names rusty() sets on the Config type (lines 99-101).
AttrNames == { "builder_token", "agent_type", "snapshot_bucket" }

\* ------------------------------------------------------------------- state
Loader == 0
HostThreads == 1..NThreads
Threads == {Loader} \cup HostThreads

VARIABLES
    env,              \* the process environment: name -> Option<bytes>
    CONFIG_INSTANCE,  \* the OnceLock: None, or Some(object id)
    heap,             \* the Config objects: id -> [by, done]
    pc,               \* each thread's position
    instance,         \* each thread's local `instance` inside Config::instance
    late,             \* whether the thread's call began after the module loaded
    ret,              \* the result of each thread's current or last Config::instance
    returned,         \* every object some Config::instance call has returned
    classAdded,       \* the Config type object exists (line 86)
    classAttrs,       \* the descriptors set on the Config type: name -> descriptor
    CONFIG,           \* the module's CONFIG binding: None or Some(object id)
    hostDesc,         \* the descriptor the host program built itself, if any
    lastRead          \* the last descriptor read: what was asked, what the
                      \* variable held, the answer, and the answer before it

vars == << env, CONFIG_INSTANCE, heap, pc, instance, late, ret, returned,
           classAdded, classAttrs, CONFIG, hostDesc, lastRead >>

singleton == << CONFIG_INSTANCE, heap, pc, instance, late, ret, returned,
                classAdded, classAttrs, CONFIG >>

reads == << hostDesc, lastRead >>

NoRead == [tag |-> "NoRead"]

Init ==
    /\ env = [v \in EnvNames |-> None]
    /\ CONFIG_INSTANCE = None
    /\ heap = <<>>
    /\ pc = [t \in Threads |-> IF t = Loader THEN "start" ELSE "idle"]
    /\ instance = [t \in Threads |-> None]
    /\ late = [t \in Threads |-> FALSE]
    /\ ret = [t \in Threads |-> None]
    /\ returned = {}
    /\ classAdded = FALSE
    /\ classAttrs = [a \in AttrNames |-> None]
    /\ CONFIG = None
    /\ hostDesc = None
    /\ lastRead = NoRead

\* ------------------------------------------------------- Config::instance
\* OnceLock::get
OnceLock_get(cell) == cell

\* A set that overwrites a full cell (what a plain mutable global would do).
OnceLock_set_overwrite(cell, v) == Some(v)

\* A set that stores nothing, whatever the cell holds.
OnceLock_set_never(cell, v) == cell

\* OnceLock::set: stores only into an empty cell; a full cell is left as it
\* is (the Err it answers is discarded at line 77).
OnceLock_set(cell, v) == IF cell = None THEN Some(v) ELSE cell

\* Where a thread goes when its Config::instance call returns: a host thread
\* is idle again; the loader goes on to line 105, or leaves rusty() by `?`.
AfterInstance(t, ok) ==
    IF t = Loader THEN (IF ok THEN "bind" ELSE "failed") ELSE "idle"

\* A thread may enter Config::instance: the loader at line 104, a host
\* thread once the Config type object exists (from line 86 on the host can
\* reach it, whether or not rusty() goes on to return Ok).
CanCall(t) ==
    IF t = Loader THEN pc[t] = "attrs3" ELSE pc[t] = "idle" /\ classAdded

\* Line 72-73: CONFIG_INSTANCE.get() finds an instance and returns its clone.
InstanceGetSome(t) ==
    /\ CanCall(t)
    /\ OnceLock_get(CONFIG_INSTANCE) # None
    /\ ret' = [ret EXCEPT ![t] = Ok(OnceLock_get(CONFIG_INSTANCE).val)]
    /\ returned' = returned \cup {OnceLock_get(CONFIG_INSTANCE).val}
    /\ late' = [late EXCEPT ![t] = (pc[Loader] = "loaded")]
    /\ pc' = [pc EXCEPT ![t] = AfterInstance(t, TRUE)]
    /\ UNCHANGED << env, CONFIG_INSTANCE, heap, instance, classAdded,
                    classAttrs, CONFIG, reads >>

\* Line 72, 74: CONFIG_INSTANCE.get() finds nothing.
InstanceGetNone(t) ==
    /\ CanCall(t)
    /\ OnceLock_get(CONFIG_INSTANCE) = None
    /\ late' = [late EXCEPT ![t] = (pc[Loader] = "loaded")]
    /\ ret' = [ret EXCEPT ![t] = None]
    /\ pc' = [pc EXCEPT ![t] = "got_none"]
    /\ UNCHANGED << env, CONFIG_INSTANCE, heap, instance, returned,
                    classAdded, classAttrs, CONFIG, reads >>

\* Line 75, Py::new: the host allocates the object ...
PyNewAlloc(t) ==
    /\ pc[t] = "got_none"
    /\ Len(heap) < MaxObjs
    /\ heap' = Append(heap, [by |-> "instance", done |-> FALSE])
    /\ instance' = [instance EXCEPT ![t] = Some(Len(heap) + 1)]
    /\ pc' = [pc EXCEPT ![t] = "allocated"]
    /\ UNCHANGED << env, CONFIG_INSTANCE, late, ret, returned, classAdded,
                    classAttrs, CONFIG, reads >>

\* A failed Py::new that leaves its half-built object behind, in the cell.
PyNewFail_partial(t) ==
    /\ pc[t] = "got_none"
    /\ Len(heap) < MaxObjs
    /\ heap' = Append(heap, [by |-> "instance", done |-> FALSE])
    /\ CONFIG_INSTANCE' = OnceLock_set(CONFIG_INSTANCE, Len(heap) + 1)
    /\ ret' = [ret EXCEPT ![t] = Err]
    /\ pc' = [pc EXCEPT ![t] = AfterInstance(t, FALSE)]
    /\ UNCHANGED << env, instance, late, returned, classAdded, classAttrs,
                    CONFIG, reads >>

\* ... or fails to, and `?` returns the error.
PyNewFail(t) ==
    /\ pc[t] = "got_none"
    /\ ret' = [ret EXCEPT ![t] = Err]
    /\ pc' = [pc EXCEPT ![t] = AfterInstance(t, FALSE)]
    /\ UNCHANGED << env, CONFIG_INSTANCE, heap, instance, late, returned,
                    classAdded, classAttrs, CONFIG, reads >>

\* Line 75, Py::new: the Config {} value is moved into the allocated object
\* and Py::new returns.
PyNewInit(t) ==
    /\ pc[t] = "allocated"
    /\ heap' = [heap EXCEPT ![instance[t].val].done = TRUE]
    /\ pc' = [pc EXCEPT ![t] = "created"]
    /\ UNCHANGED << env, CONFIG_INSTANCE, instance, late, ret, returned,
                    classAdded, classAttrs, CONFIG, reads >>

\* A set reached while Py::new is still initialising the object.
AtSet_early(t) == pc[t] \in { "allocated", "created" }

\* Line 77 follows line 75: the thread reaches set once Py::new has returned.
AtSet(t) == pc[t] = "created"

\* Lines 77-78: set (its result dropped) and Ok(instance).
InstanceSet(t) ==
    /\ AtSet(t)
    /\ CONFIG_INSTANCE' = OnceLock_set(CONFIG_INSTANCE, instance[t].val)
    /\ ret' = [ret EXCEPT ![t] = Ok(instance[t].val)]
    /\ returned' = returned \cup {instance[t].val}
    /\ instance' = [instance EXCEPT ![t] = None]
    /\ pc' = [pc EXCEPT ![t] = AfterInstance(t, TRUE)]
    /\ UNCHANGED << env, heap, late, classAdded, classAttrs, CONFIG, reads >>

\* Config::py_new, the host-side constructor Config(): a new object each time.
Config_py_new ==
    /\ classAdded
    /\ Len(heap) < MaxObjs
    /\ heap' = Append(heap, [by |-> "py_new", done |-> TRUE])
    /\ UNCHANGED << env, CONFIG_INSTANCE, pc, instance, late, ret, returned,
                    classAdded, classAttrs, CONFIG, reads >>

\* --------------------------------------------------------------- rusty()
\* Line 86: m.add_class::<Config>()
LoadAddConfig ==
    /\ pc[Loader] = "start"
    /\ classAdded' = TRUE
    /\ pc' = [pc EXCEPT ![Loader] = "class1"]
    /\ UNCHANGED << env, CONFIG_INSTANCE, heap, instance, late, ret, returned,
                    classAttrs, CONFIG, reads >>

\* Lines 87-95: m.add_class::<DynamicEnvVar>() and the three descriptors.
LoadDescriptors ==
    /\ pc[Loader] = "class1"
    /\ pc' = [pc EXCEPT ![Loader] = "attrs0"]
    /\ UNCHANGED << env, CONFIG_INSTANCE, heap, instance, late, ret, returned,
                    classAdded, classAttrs, CONFIG, reads >>

\* Lines 99-101: config_type.setattr(name, descriptor), one after the other.
LoadSetattr(from, to, name, d) ==
    /\ pc[Loader] = from
    /\ classAttrs' = [classAttrs EXCEPT ![name] = Some(d)]
    /\ pc' = [pc EXCEPT ![Loader] = to]
    /\ UNCHANGED << env, CONFIG_INSTANCE, heap, instance, late, ret, returned,
                    classAdded, CONFIG, reads >>

\* Line 105: m.add("CONFIG", config_instance); line 107: Ok(()).
LoadBind ==
    /\ pc[Loader] = "bind"
    /\ CONFIG' = Some(ret[Loader].val)
    /\ pc' = [pc EXCEPT ![Loader] = "loaded"]
    /\ UNCHANGED << env, CONFIG_INSTANCE, heap, instance, late, ret, returned,
                    classAdded, classAttrs, reads >>

\* Any `?` of rusty() outside Config::instance: the step the loader is at
\* fails and rusty() returns the error.
LoadFail ==
    /\ pc[Loader] \in { "start", "class1", "attrs0", "attrs1", "attrs2", "bind" }
    /\ pc' = [pc EXCEPT ![Loader] = "failed"]
    /\ UNCHANGED << env, CONFIG_INSTANCE, heap, instance, late, ret, returned,
                    classAdded, classAttrs, CONFIG, reads >>

\* ------------------------------------------------------------ environment
\* What the process environment holds for `name` (std::env::var_os).
env_var_os(e, name) == IF name \in DOMAIN e THEN e[name] ELSE None

\* Code outside the core (the host program, the operating environment) sets
\* or changes a variable ...
SetEnv(v, x) ==
    /\ env[v] # Some(x)
    /\ env' = [env EXCEPT ![v] = Some(x)]
    /\ UNCHANGED << singleton, reads >>

\* ... or removes it.
UnsetEnv(v) ==
    /\ env[v] # None
    /\ env' = [env EXCEPT ![v] = None]
    /\ UNCHANGED << singleton, reads >>

\* ------------------------------------------------------------------ reads
\* The Config objects the host can hold: made by Config(), or returned by
\* Config::instance.
HostObjects ==
    { o \in 1..Len(heap) : heap[o].by = "py_new" \/ o \in returned }

\* The descriptors set on the Config type so far.
Registered ==
    { classAttrs[a].val : a \in { n \in AttrNames : classAttrs[n] # None } }

\* The descriptors the host can read: those, and the one it built itself.
Descriptors ==
    Registered \cup (IF hostDesc = None THEN {} ELSE {hostDesc.val})

\* The (_obj, _type) pairs __get__ can be called with: attribute access on
\* an instance or on the class, or a direct call with any arguments.
ObjArgs == {None} \cup { Some(o) : o \in HostObjects }
TypeArgs == {None} \cup (IF classAdded THEN {Some("Config")} ELSE {})

\* The host program builds a descriptor of its own: DynamicEnvVar(name, default).
NewDescriptor(name, default) ==
    /\ pc[Loader] = "loaded"
    /\ hostDesc # Some(DynamicEnvVar_new(name, default))
    /\ hostDesc' = Some(DynamicEnvVar_new(name, default))
    /\ UNCHANGED << env, singleton, lastRead >>

\* What the previous read answered, when this read follows a read of the
\* same descriptor and the variable holds what it held then; None otherwise.
PrevResult(self) ==
    IF /\ lastRead # NoRead
       /\ lastRead.self = self
       /\ lastRead.seen = env_var_os(env, self.env_name)
    THEN Some(lastRead.result)
    ELSE None

\* A read that writes what it falls back to into the environment
\* (env::set_var on the absence path).
Read_writes_env(self, obj, typ) ==
    /\ lastRead' = [ self |-> self, obj |-> obj, typ |-> typ,
                     seen |-> env_var_os(env, self.env_name),
                     prev |-> PrevResult(self),
                     result |-> descriptor_get(self, obj, typ, env) ]
    /\ env' = IF self.env_name \in DOMAIN env /\ env[self.env_name] = None
              THEN [env EXCEPT ![self.env_name] =
                      IF self.default_value = None THEN Some(<<>>)
                      ELSE self.default_value]
              ELSE env
    /\ UNCHANGED << singleton, hostDesc >>

\* A read that consumes the value: the first read of a variable answers it,
\* the read after it finds it taken and falls back.
Read_consuming(self, obj, typ) ==
    /\ lastRead' = [ self |-> self, obj |-> obj, typ |-> typ,
                     seen |-> env_var_os(env, self.env_name),
                     prev |-> PrevResult(self),
                     result |-> IF PrevResult(self) = None
                                THEN descriptor_get(self, obj, typ, env)
                                ELSE get_env_value_cached(self, env) ]
    /\ UNCHANGED << env, singleton, hostDesc >>

\* One read: DynamicEnvVar::__get__ on descriptor `self`.
Read(self, obj, typ) ==
    /\ lastRead' = [ self |-> self, obj |-> obj, typ |-> typ,
                     seen |-> env_var_os(env, self.env_name),
                     prev |-> PrevResult(self),
                     result |-> descriptor_get(self, obj, typ, env) ]
    /\ UNCHANGED << env, singleton, hostDesc >>

\* --------------------------------------------------------------- the system
\* The module initialiser rusty(), the threads inside Config::instance and
\* the host's Config() calls.
Lifecycle ==
    \/ LoadAddConfig
    \/ LoadDescriptors
    \/ LoadSetattr("attrs0", "attrs1", "builder_token", builder_token)
    \/ LoadSetattr("attrs1", "attrs2", "agent_type", agent_type)
    \/ LoadSetattr("attrs2", "attrs3", "snapshot_bucket", snapshot_bucket)
    \/ LoadBind
    \/ LoadFail
    \/ \E t \in Threads :
        \/ InstanceGetSome(t)
        \/ InstanceGetNone(t)
        \/ PyNewAlloc(t)
        \/ PyNewFail(t)
        \/ PyNewInit(t)
        \/ InstanceSet(t)
    \/ Config_py_new

\* The whole program from process start. The threads run in parallel: their
\* steps interleave freely, also inside Config::instance (no thread holds a
\* lock across lines 72-78). The environment and the reads are exercised on
\* one variable and one value here; SpecResolve below exercises them in full.
WatchedVars == { "BUILDER_TOKEN" }
WatchedValues == { <<97, 195, 169>> }

Next ==
    \/ Lifecycle
    \/ \E v \in WatchedVars : \E x \in WatchedValues : SetEnv(v, x)
    \/ \E v \in WatchedVars : UnsetEnv(v)
    \/ \E self \in Registered \cap {builder_token} :
         \E obj \in ObjArgs : \E typ \in TypeArgs \ {None} : Read(self, obj, typ)

Spec == Init /\ [][Next]_vars

\* The program once `import rusty` has succeeded with no thread in the way:
\* the state Spec reaches by running rusty() alone.
InitLoaded ==
    /\ env = [v \in EnvNames |-> None]
    /\ CONFIG_INSTANCE = Some(1)
    /\ heap = << [by |-> "instance", done |-> TRUE] >>
    /\ pc = [t \in Threads |-> IF t = Loader THEN "loaded" ELSE "idle"]
    /\ instance = [t \in Threads |-> None]
    /\ late = [t \in Threads |-> FALSE]
    /\ ret = [t \in Threads |-> IF t = Loader THEN Ok(1) ELSE None]
    /\ returned = {1}
    /\ classAdded = TRUE
    /\ classAttrs = [a \in AttrNames |->
                       IF a = "builder_token" THEN Some(builder_token)
                       ELSE IF a = "agent_type" THEN Some(agent_type)
                       ELSE Some(snapshot_bucket)]
    /\ CONFIG = Some(1)
    /\ hostDesc = None
    /\ lastRead = NoRead

\* Names and defaults the host builds descriptors with: a registered name,
\* and a name no environment can hold (it contains "=").
DescNames == { "BUILDER_TOKEN", "NO=SUCH" }
DescDefaults == { None, Some(<<>>) }

\* Reads and environment changes after a successful load.
NextResolve ==
    \/ \E v \in VarNames : \E x \in EnvValues : SetEnv(v, x)
    \/ \E v \in VarNames : UnsetEnv(v)
    \/ \E n \in DescNames : \E d \in DescDefaults : NewDescriptor(n, d)
    \/ \E self \in Descriptors : \E obj \in ObjArgs : \E typ \in TypeArgs :
         Read(self, obj, typ)

SpecResolve == InitLoaded /\ [][NextResolve]_vars

\* The assumption of the comment at line 76: the thread inside
\* Config::instance holds the GIL from the get() to the return, so no other
\* thread is inside Config::instance meanwhile.
HoldsGIL(t) == \A u \in Threads \ {t} : pc[u] \notin { "got_none", "allocated", "created" }

\* The program under that assumption: as Next, with every step of
\* Config::instance taken by a thread that holds the GIL.
NextGIL ==
    \/ LoadAddConfig
    \/ LoadDescriptors
    \/ LoadSetattr("attrs0", "attrs1", "builder_token", builder_token)
    \/ LoadSetattr("attrs1", "attrs2", "agent_type", agent_type)
    \/ LoadSetattr("attrs2", "attrs3", "snapshot_bucket", snapshot_bucket)
    \/ LoadBind
    \/ LoadFail
    \/ \E t \in Threads :
        /\ HoldsGIL(t)
        /\ \/ InstanceGetSome(t)
           \/ InstanceGetNone(t)
           \/ PyNewAlloc(t)
           \/ PyNewFail(t)
           \/ PyNewInit(t)
           \/ InstanceSet(t)
    \/ Config_py_new
    \/ \E v \in WatchedVars : \E x \in WatchedValues : SetEnv(v, x)
    \/ \E v \in WatchedVars : UnsetEnv(v)
    \/ \E self \in Registered \cap {builder_token} :
         \E obj \in ObjArgs : \E typ \in TypeArgs \ {None} : Read(self, obj, typ)

SpecGIL == Init /\ [][NextGIL]_vars

\* Reads of the registered attributes while any variable, registered or
\* not, is set, changed and removed.
NextIsolation ==
    \/ \E v \in EnvNames : \E x \in EnvValues : SetEnv(v, x)
    \/ \E v \in EnvNames : UnsetEnv(v)
    \/ \E self \in Registered : \E obj \in ObjArgs : \E typ \in TypeArgs \ {None} :
         Read(self, obj, typ)

SpecIsolation == InitLoaded /\ [][NextIsolation]_vars

\* Reads through every form of access after a successful load: on CONFIG,
\* on Config objects the host made with Config(), on the class, and by a
\* direct call without arguments, while two variables change.
FormVars == { "BUILDER_TOKEN", "CODEGEN_AGENT" }

NextForms ==
    \/ Config_py_new
    \/ \E v \in FormVars : \E x \in EnvValues : SetEnv(v, x)
    \/ \E v \in FormVars : UnsetEnv(v)
    \/ \E self \in Registered : \E obj \in ObjArgs : \E typ \in TypeArgs :
         Read(self, obj, typ)

SpecForms == InitLoaded /\ [][NextForms]_vars

\* ------------------------------------------------------------------ claims
ConfigObjects == 1..Len(heap)
ByInstance == { o \in ConfigObjects : heap[o].by = "instance" }

\* C1: every successful Config::instance call, in any interleaving of the
\* threads' steps, returns the same object: no two calls return two distinct
\* objects.
C1_SingletonIdentity == Cardinality(returned) <= 1

\* C2: over any interleaving of Config::instance calls the singleton's object
\* is allocated inside instance() at most once; a thread that loses the race
\* builds no second object.
C2_OneTimeConstruction == Cardinality(ByInstance) <= 1

\* C3: once the singleton has been created exactly one Config object exists,
\* whatever the host does next (Config() included).
C3_ExactlyOneConfig == CONFIG_INSTANCE # None => Cardinality(ConfigObjects) = 1

\* C4: once CONFIG_INSTANCE holds an instance no step empties it or replaces
\* the instance by another object.
C4_LifecycleMonotone ==
    [][CONFIG_INSTANCE # None => CONFIG_INSTANCE' = CONFIG_INSTANCE]_vars

\* C4's case: the cell is full, a later Config::instance call has tried to set
\* another object, an attribute was read and the environment was changed.
C4_Witness ==
    /\ CONFIG_INSTANCE # None
    /\ \E o \in returned : Some(o) # CONFIG_INSTANCE
    /\ lastRead # NoRead
    /\ env["BUILDER_TOKEN"] # None

\* What a descriptor answers for an unset variable: its default, or None.
Fallback(self) ==
    IF self.default_value = None THEN PyNone ELSE PyStr(self.default_value.val)

\* C5: a read of an attribute whose variable is set to x answers exactly x,
\* whatever x and whatever the default.
C5_PresentVerbatim ==
    (lastRead # NoRead /\ lastRead.seen # None)
        => lastRead.result = Ok(PyStr(lastRead.seen.val))

\* The variable and the unset-answer of each registered attribute (the table
\* of the external interface).
RegisteredVar(a) ==
    IF a = "builder_token" THEN "BUILDER_TOKEN"
    ELSE IF a = "agent_type" THEN "CODEGEN_AGENT"
    ELSE "SNAPSHOT_BUCKET"
RegisteredUnset(a) == IF a = "agent_type" THEN PyStr(TrpcAgent) ELSE PyNone

\* C6: a read of an attribute whose variable is unset answers the default
\* when there is one and None otherwise; builder_token and snapshot_bucket
\* answer None and agent_type answers "trpc_agent".
C6_AbsentDefault ==
    /\ (lastRead # NoRead /\ lastRead.seen = None)
          => lastRead.result = Ok(Fallback(lastRead.self))
    /\ \A a \in AttrNames :
          (classAttrs[a] # None /\ env[RegisteredVar(a)] = None)
             => descriptor_get(classAttrs[a].val, None, Some("Config"), env)
                  = Ok(RegisteredUnset(a))

\* C6's case: agent_type was read while CODEGEN_AGENT was unset, and
\* builder_token's variable is unset as well.
C6_Witness ==
    /\ lastRead # NoRead
    /\ lastRead.self = agent_type
    /\ lastRead.seen = None
    /\ lastRead.result = Ok(PyStr(TrpcAgent))
    /\ env["BUILDER_TOKEN"] = None

\* C7: every read, of any descriptor in any environment through any form of
\* access, answers Ok with a str or None, never an error.
C7_NeverFails ==
    lastRead # NoRead =>
        /\ lastRead.result.tag = "Ok"
        /\ lastRead.result.val.tag \in { "PyStr", "PyNone" }

\* C7's case: a descriptor with a name the environment cannot hold and no
\* default was read with neither instance nor type, and answered None.
C7_Witness ==
    /\ lastRead # NoRead
    /\ lastRead.self = DynamicEnvVar_new("NO=SUCH", None)
    /\ lastRead.obj = None /\ lastRead.typ = None
    /\ lastRead.result = Ok(PyNone)

\* C8: a read answers from the environment as it is at that read: a str that
\* is not the default is the value the variable holds then, a variable that
\* holds a Unicode value is answered with it, and an unset variable is
\* answered with the fallback, whatever earlier reads saw.
C8_NoCaching ==
    lastRead # NoRead =>
        /\ (/\ lastRead.result.tag = "Ok"
            /\ lastRead.result.val.tag = "PyStr"
            /\ lastRead.result.val # Fallback(lastRead.self))
              => lastRead.seen = Some(lastRead.result.val.val)
        /\ (lastRead.seen # None /\ IsUtf8(lastRead.seen.val))
              => lastRead.result = Ok(PyStr(lastRead.seen.val))
        /\ lastRead.seen = None => lastRead.result = Ok(Fallback(lastRead.self))

\* C8's case: agent_type (which has a default) was read while its variable,
\* set after the descriptor was built, held a value; the read answered that
\* value, and the variable has been changed again since.
C8_Witness ==
    /\ lastRead # NoRead
    /\ lastRead.self = agent_type
    /\ lastRead.seen # None
    /\ lastRead.result = Ok(PyStr(lastRead.seen.val))
    /\ env["CODEGEN_AGENT"] # lastRead.seen

\* C9: once rusty() has returned Ok, every Config::instance call begun after
\* that returns the object bound to CONFIG.
C9_ConfigIsSingleton ==
    pc[Loader] = "loaded" =>
        \A t \in HostThreads :
            (late[t] /\ ret[t].tag = "Ok") => Some(ret[t].val) = CONFIG

\* C10: the object in CONFIG_INSTANCE and every object a Config::instance
\* call has returned is fully constructed (Py::new has returned for it).
C10_SafePublication ==
    /\ CONFIG_INSTANCE # None => heap[CONFIG_INSTANCE.val].done
    /\ \A o \in returned : heap[o].done
    /\ \A t \in Threads : ret[t].tag = "Ok" => heap[ret[t].val].done

\* C10's case: the cell is full and its object has been returned to a
\* caller while another thread's Py::new is still under way.
C10_Witness ==
    /\ CONFIG_INSTANCE # None
    /\ CONFIG_INSTANCE.val \in returned
    /\ \E t \in Threads : pc[t] = "allocated" /\ ~heap[instance[t].val].done

\* A thread is inside Config::instance, past the get().
InInstance(t) == pc[t] \in { "got_none", "allocated", "created" }

\* C11: a Config::instance call whose allocation fails returns the error and
\* ends there (no second attempt), and stores nothing: the step leaves
\* CONFIG_INSTANCE and the heap as they were, and as long as no call has got
\* past its allocation the cell is empty and no object exists.
C11_FailureNoPartialState ==
    /\ [](( returned = {} /\ \A t \in Threads : pc[t] \notin { "allocated", "created" })
            => (CONFIG_INSTANCE = None /\ ByInstance = {}))
    /\ [][\A t \in Threads :
            (ret[t] # Err /\ ret'[t] = Err)
               => /\ pc[t] = "got_none"
                  /\ ~InInstance(t)'
                  /\ CONFIG_INSTANCE' = CONFIG_INSTANCE
                  /\ heap' = heap
                  /\ instance'[t] = None]_vars

\* C11's case: a call has returned the error, its thread is out of
\* Config::instance, and the cell is still empty.
C11_Witness ==
    /\ \E t \in HostThreads : ret[t] = Err /\ pc[t] = "idle"
    /\ ret[Loader] = Err /\ pc[Loader] = "failed"
    /\ CONFIG_INSTANCE = None

\* C12: the core only reads the environment: a step in which the core acts
\* (rusty(), Config::instance, Config(), a descriptor built or read) leaves
\* the environment as it was, and a read leaves every descriptor, the one it
\* read included, with the name and default it had.
C12_EnvReadOnly ==
    [][ /\ (<< singleton, reads >>' # << singleton, reads >>) => env' = env
        /\ lastRead' # lastRead
             => /\ classAttrs' = classAttrs
                /\ hostDesc' = hostDesc
                /\ lastRead'.self \in Descriptors' ]_vars

\* C12's case: rusty() has run to its end, Config() has been called and
\* builder_token has been read, and the environment holds for BUILDER_TOKEN
\* the value that code outside the core gave it, as the read saw it.
C12_Witness ==
    /\ pc[Loader] = "loaded"
    /\ \E o \in ConfigObjects : heap[o].by = "py_new"
    /\ lastRead # NoRead
    /\ lastRead.seen # None
    /\ env["BUILDER_TOKEN"] = lastRead.seen

\* C13: a read that follows a read of the same attribute, the variable
\* holding what it held then, answers what that read answered.
C13_Idempotent ==
    (lastRead # NoRead /\ lastRead.prev # None)
        => lastRead.result = lastRead.prev.val

\* C13's case: an attribute whose variable is set was read twice in a row
\* and answered the variable's value both times.
C13_Witness ==
    /\ lastRead # NoRead
    /\ lastRead.prev # None
    /\ lastRead.seen # None
    /\ lastRead.result = Ok(PyStr(lastRead.seen.val))
    /\ lastRead.prev.val = lastRead.result

\* C14: what a registered attribute answers depends on its own variable only:
\* giving any other variable (a name that differs by case or by a prefix
\* included) any other content changes no answer, and the answer of the last
\* read is the answer in the present environment whenever the attribute's
\* variable holds what it held then.
C14_OwnVariableOnly ==
    \A a \in AttrNames :
        LET d == classAttrs[a].val IN
        /\ \A n \in EnvNames \ {RegisteredVar(a)} :
             \A x \in {None} \cup { Some(b) : b \in EnvValues } :
                descriptor_get(d, None, Some("Config"), [env EXCEPT ![n] = x])
                  = descriptor_get(d, None, Some("Config"), env)
        /\ (/\ lastRead # NoRead
            /\ lastRead.self = d
            /\ lastRead.seen = env[RegisteredVar(a)])
              => lastRead.result = descriptor_get(d, None, Some("Config"), env)

\* C14's case: builder_token was read, BUILDER_TOKEN holds what it held at
\* that read, and the names that differ from it by case and by a prefix hold
\* other values, as do the other registered variables.
C14_Witness ==
    /\ lastRead # NoRead
    /\ lastRead.self = builder_token
    /\ lastRead.seen = Some(<<>>)
    /\ lastRead.result = Ok(PyStr(<<>>))
    /\ env["BUILDER_TOKEN"] = lastRead.seen
    /\ env["builder_token"] = Some(<<97, 195, 169>>)
    /\ env["MY_BUILDER_TOKEN"] = Some(<<97, 195>>)
    /\ env["CODEGEN_AGENT"] # None
    /\ env["SNAPSHOT_BUCKET"] # None

\* C15: when no Config::instance call interleaves with another, the set() of
\* line 77 always finds the cell empty and stores the caller's instance, and
\* every instance a call has returned is the one in CONFIG_INSTANCE.
C15_SetSucceedsUnderGIL ==
    /\ [](\A o \in returned : CONFIG_INSTANCE = Some(o))
    /\ [][\A t \in Threads :
            (pc[t] = "created" /\ pc'[t] # "created")
               => /\ CONFIG_INSTANCE = None
                  /\ CONFIG_INSTANCE' = Some(instance[t].val)
                  /\ ret'[t] = Ok(CONFIG_INSTANCE'.val)]_vars

\* C15's case: a call has created and stored the instance (after an earlier
\* call failed to allocate), and the calls of the other threads have
\* returned that instance.
C15_Witness ==
    /\ CONFIG_INSTANCE # None
    /\ heap[CONFIG_INSTANCE.val].by = "instance"
    /\ pc[Loader] = "failed" /\ ret[Loader] = Err
    /\ \A t \in HostThreads : ret[t] = Ok(CONFIG_INSTANCE.val) /\ pc[t] = "idle"

\* C16: what __get__ answers does not depend on the form of access: in every
\* environment a read through any Config object (CONFIG or another), through
\* the class alone, or with neither instance nor type answers what a read on
\* CONFIG answers, and the last read, whatever its form, answered what a
\* read without arguments answers while the variable holds the same.
C16_FormIndependent ==
    /\ \A d \in Descriptors : \A obj \in ObjArgs : \A typ \in TypeArgs :
          descriptor_get(d, obj, typ, env)
            = descriptor_get(d, CONFIG, Some("Config"), env)
    /\ (/\ lastRead # NoRead
        /\ lastRead.seen = env_var_os(env, lastRead.self.env_name))
          => lastRead.result = descriptor_get(lastRead.self, None, None, env)

\* C16's case: agent_type was read with neither instance nor type right
\* after another read of it, its variable unchanged, while the host
\* holds a Config object of its own beside CONFIG and CODEGEN_AGENT is set.
C16_Witness ==
    /\ \E o \in HostObjects : heap[o].by = "py_new" /\ Some(o) # CONFIG
    /\ lastRead # NoRead
    /\ lastRead.self = agent_type
    /\ lastRead.obj = None /\ lastRead.typ = None
    /\ lastRead.prev # None
    /\ lastRead.seen # None
    /\ lastRead.result = Ok(PyStr(lastRead.seen.val))

====
